---- MODULE Spec2Model ----
(***************************************************************************)
(* BeanLink: scoped, hierarchical publish/subscribe.                       *)
(*                                                                         *)
(* The model follows src/src/lib/BeanLink.ts.  A registry (a BeanLink      *)
(* instance) is a name and a Map from event name to an array of            *)
(* subscription records; the Svelte context of a component is a pair of    *)
(* slots ('beanLink', 'parentBeanLink'); the static featureMap maps a      *)
(* context name to an array of init callbacks.  JavaScript runs every      *)
(* public call to completion, so each call (with every handler, predicate  *)
(* and feature callback it invokes, and every call those make) is one      *)
(* action.  Garbage collection of a handler that nothing holds strongly    *)
(* is an action of the environment that runs between calls.                *)
(***************************************************************************)
EXTENDS Integers, Sequences, FiniteSets, TLC

VARIABLES
    regs,        \* every BeanLink instance ever constructed, in creation order
    ctx,         \* the Svelte context of each component: 'beanLink', 'parentBeanLink'
    featureMap,  \* BeanLink.featureMap: context name -> array of init callbacks
    alive,       \* the handler function objects not yet garbage collected
    nextSub,     \* number of subscription records ever pushed (their identity)
    eventNames,  \* the module's Map of declared event names: name -> name
    features,    \* FeatureManager.features: feature name -> the Feature recorded
    last         \* what the most recent call was given, returned and invoked

vars == <<regs, ctx, featureMap, alive, nextSub, eventNames, features, last>>

----------------------------------------------------------------------------
(* Bounds of the model. *)

MaxRegs == 3    \* BeanLink instances constructed
MaxSubs == 5    \* subscription records pushed
MaxDispatchSubs == 3 \* subscription records pushed by the on() calls of the dispatch and catalog drivers
MaxPos == 2     \* components (context positions)
MaxFeatures == 2 \* init callbacks registered

----------------------------------------------------------------------------
(* The inputs of the calls. *)

\* Event names published and subscribed to.
EventNames == {"testEvent", "otherEvent"}

\* The names given to createEvent: the event names and the empty string.
CreatorNames == EventNames \cup {""}

\* Event payloads.
Values == {0, 1}

\* The contextId argument of getInstance: absent, the empty string, or a name.
NoId == "<undefined>"
ContextNames == {"A", "B"}
ContextIds == {NoId, ""} \cup ContextNames

\* Faulty variant of Truthy: only the empty string counts as no identifier.
TruthyUnlessEmpty(id) == id # ""

\* JavaScript truthiness of a contextId (undefined and '' are falsy).
Truthy(id) == id # NoId /\ id # ""

\* The handler functions the application owns.  What each does when invoked:
\*   hA, hB  return
\*   hPub    on an event of value 1, publishes the same name with value 0 on
\*           the registry it was invoked through; otherwise returns
\*   hSub    subscribes itself once more (no options) for the event's name on
\*           the registry it was invoked through
\*   hThrow  throws
Handlers == {"hA", "hB", "hPub", "hSub", "hThrow"}

\* The options.weak argument of on(): absent, true or false.
WeakOpts == {"absent", "true", "false"}

\* The options.predicate argument of on(): absent, or value === 1.
Preds == {"absent", "isOne"}

\* The init callbacks features register.  What each does with the new instance:
\*   cbSub      beanLink.on('testEvent', hA, {weak: false})
\*   cbResolve  BeanLink.getInstance('C') in the same component ('C' is a
\*              context name no feature is registered for)
\*   cbThrow    throws
Callbacks == {"cbSub", "cbResolve", "cbThrow"}

\* The undefined registry reference.
Undef == 0

----------------------------------------------------------------------------
(* Array helpers, as Array.prototype.findIndex and splice compute them. *)

Min(a, b) == IF a < b THEN a ELSE b
Max(a, b) == IF a > b THEN a ELSE b

\* handlers.findIndex(e => e === ref): the 0-based index of the record whose
\* identity is ref's, or -1.
FindIndex(list, ref) ==
    LET hits == {i \in 1..Len(list) : list[i].id = ref.id}
    IN  IF hits = {} THEN -1
        ELSE (CHOOSE i \in hits : \A j \in hits : i <= j) - 1

\* handlers.splice(i, 1): a negative start counts from the end of the array.
Splice1(list, i) ==
    LET len == Len(list)
        start == IF i < 0 THEN Max(len + i, 0) ELSE Min(i, len)
        count == Min(1, len - start)
    IN  IF count = 0 THEN list
        ELSE SubSeq(list, 1, start) \o SubSeq(list, start + 2, len)

\* recycledRefs.forEach(ref => handlers.splice(handlers.findIndex(...), 1))
RECURSIVE Compact(_, _)
Compact(list, recycled) ==
    IF recycled = <<>> THEN list
    ELSE Compact(Splice1(list, FindIndex(list, Head(recycled))), Tail(recycled))

\* A predicate applied to an event.
PredHolds(pred, ev) == pred = "isOne" /\ ev.value = 1

\* eventNames.get(name), or undefined when the Map has no such key.
\* (No name is "<undefined>", which stands for the undefined value.)
Get(names, name) == IF name \in DOMAIN names THEN names[name] ELSE NoId

\* createEvent(name): the Map it leaves, the exception it throws and the
\* creator it returns.
createEvent(names, name) ==
    IF Truthy(Get(names, name))
    THEN [eventNames |-> names, err |-> "DuplicateEventName", ret |-> <<>>]
    ELSE [eventNames |-> (name :> name) @@ names, err |-> "none",
          ret |-> [name |-> name]]

\* creator.event(value): (value) => ({name, value})
event(creator, value) == [name |-> creator.name, value |-> value]

\* The first argument of on(): a string, or a creator object.
String(s) == [type |-> "string", val |-> s]
Object(creator) == [type |-> "object", val |-> creator]

\* Faulty variant of eventName: an object argument is converted to a string.
eventNameToString(ev) == IF ev.type = "string" THEN ev.val ELSE "[object Object]"

\* typeof event === 'string' ? event : event.name
eventName(ev) == IF ev.type = "string" THEN ev.val ELSE ev.val.name

----------------------------------------------------------------------------
(* The running call.  st is the memory a call works on and what it has     *)
(* done so far:                                                            *)
(*   regs, ctx, nextSub   as the variables                                 *)
(*   log     the handler invocations, in order                             *)
(*   evals   the predicate calls, in order                                 *)
(*   setups  the number of calls of Feature.setup()                        *)
(*   passes  the publish calls begun, in order: registry, event, the list  *)
(*           as the call found it, the publish call it was made from, and  *)
(*           whether the call returned                                     *)
(*           (returned), and once its forEach has ended, the records it    *)
(*           marked (recycledRefs) and the list as it was then (atEnd)     *)
(*   sink    whether console.log works ("ok") or throws ("throws")         *)
(*   cbs     the init callbacks run, in order: the callback, the instance  *)
(*           it was given, and what the context of the component held      *)
(*           under 'beanLink' when it began                                *)
(*   ret     the value the last getInstance returned                       *)
(*   err     the exception in flight ("none" when there is none)           *)
(***************************************************************************)

NoErr == "none"
\* Not an exception of the program: the call would exceed a bound of the model.
OutOfBounds == "bound"

Start ==
    [regs |-> regs, ctx |-> ctx, nextSub |-> nextSub, log |-> <<>>,
     passes |-> <<>>, cbs |-> <<>>, ret |-> <<>>, err |-> NoErr, sink |-> "ok",
     evals |-> <<>>, setups |-> 0]

Throw(st, e) == [st EXCEPT !.err = e]

\* BeanLink.log(action, message): console.log(...), which throws when the
\* console does.
log(st) == IF st.sink = "throws" THEN Throw(st, "log") ELSE st

\* this._handlers.get(name), or the empty array when the Map has no such key.
ListOf(rs, r, name) ==
    IF name \in DOMAIN rs[r].handlers THEN rs[r].handlers[name] ELSE <<>>

\* BeanLink.on(event, handler, options)
on(st, r, name, h, weak, pred) ==
    IF st.nextSub >= MaxSubs THEN Throw(st, OutOfBounds)
    ELSE
    LET handlerRef == [id |-> st.nextSub + 1, h |-> h,
                       weak |-> (weak = "true"), pred |-> pred]
        handlers == ListOf(st.regs, r, name)
    IN  [st EXCEPT !.regs[r].handlers = (name :> Append(handlers, handlerRef)) @@ @,
                   !.nextSub = @ + 1]

\* BeanLink.on(event, handler, options) with a string or a creator.
onEvent(st, r, ev, h, weak, pred) == on(st, r, eventName(ev), h, weak, pred)

\* !handlerRef: the subscription holds a WeakRef whose deref() is undefined.
Gone(handler) == handler.weak /\ handler.h \notin alive

\* !handler.predicate || (handler.predicate && handler.predicate(event))
Accepts(handler, ev) == handler.pred = "absent" \/ PredHolds(handler.pred, ev)

RECURSIVE publish(_, _, _, _)
RECURSIVE forEach(_, _, _, _, _, _, _)
RECURSIVE invoke(_, _, _, _, _)

\* handlerRef(event): the body of the handler function.
\* me is the publish call (its index in passes) that invokes the handler.
invoke(st, r, me, sub, ev) ==
    LET st1 == [st EXCEPT !.log = Append(@, [pass |-> me, reg |-> r,
                                             sub |-> sub, ev |-> ev])]
    IN  CASE sub.h \in {"hA", "hB"} -> st1
          [] sub.h = "hPub" ->
                IF ev.value = 1
                THEN publish(st1, r, [name |-> ev.name, value |-> 0], me)
                ELSE st1
          [] sub.h = "hSub" -> on(st1, r, ev.name, "hSub", "absent", "absent")
          [] sub.h = "hThrow" -> Throw(st1, "handler")

\* Faulty variant of evaluate: the predicate is called twice.
evaluateTwice(st, me, handler, ev) ==
    IF handler.pred = "absent" THEN st
    ELSE LET st1 == [st EXCEPT !.evals = @ \o
                        << [pass |-> me, sub |-> handler, ev |-> ev],
                           [pass |-> me, sub |-> handler, ev |-> ev] >>]
         IN  IF handler.pred = "pThrow" THEN Throw(st1, "predicate") ELSE st1

\* handler.predicate(event), when the subscription has a predicate: the call
\* is recorded (its value is Accepts); the predicate "pThrow" throws.
evaluate(st, me, handler, ev) ==
    IF handler.pred = "absent" THEN st
    ELSE LET st1 == [st EXCEPT !.evals =
                        Append(@, [pass |-> me, sub |-> handler, ev |-> ev])]
         IN  IF handler.pred = "pThrow" THEN Throw(st1, "predicate") ELSE st1

\* Faulty variant of forEach: the walk goes one index past the length the
\* array had when it began.
forEachOneMore(st, r, ev, me, k, len, recycled) ==
    IF st.err # NoErr \/ k > len + 1 THEN [st |-> st, recycled |-> recycled]
    ELSE
    LET handlers == st.regs[r].handlers[ev.name] IN
    IF k > Len(handlers) THEN forEach(st, r, ev, me, k + 1, len, recycled)
    ELSE
    LET handler == handlers[k]
    IN  IF Gone(handler)
        THEN forEach(st, r, ev, me, k + 1, len, Append(recycled, handler))
        ELSE
        LET st1 == evaluate(st, me, handler, ev)
        IN  IF st1.err = NoErr /\ Accepts(handler, ev)
            THEN forEach(invoke(st1, r, me, handler, ev), r, ev, me, k + 1, len, recycled)
            ELSE forEach(st1, r, ev, me, k + 1, len, recycled)

\* handlers.forEach(handler => ...): indices 0..len-1 of the array as it is
\* when each index is reached; k is 1-based.  The result is the memory and
\* the recycledRefs array.
forEach(st, r, ev, me, k, len, recycled) ==
    IF st.err # NoErr \/ k > len THEN [st |-> st, recycled |-> recycled]
    ELSE
    LET handlers == st.regs[r].handlers[ev.name] IN
    IF k > Len(handlers) THEN forEach(st, r, ev, me, k + 1, len, recycled)
    ELSE
    LET handler == handlers[k]
    IN  IF Gone(handler)
        THEN forEach(st, r, ev, me, k + 1, len, Append(recycled, handler))
        ELSE
        LET st1 == evaluate(st, me, handler, ev)
        IN  IF st1.err = NoErr /\ Accepts(handler, ev)
            THEN forEach(invoke(st1, r, me, handler, ev), r, ev, me, k + 1, len, recycled)
            ELSE forEach(st1, r, ev, me, k + 1, len, recycled)

\* The publish call `me` has reached its end: it returns unless an exception
\* is in flight.
Returned(st, me) ==
    IF st.err # NoErr THEN st ELSE [st EXCEPT !.passes[me].returned = TRUE]

\* Faulty variant of publish: the handler Map is shared by every instance (it is the
\* Map of the first instance), as a static field would be.
publishStatic(st, r, ev, from) ==
    LET began == [reg |-> 1, ev |-> ev, list |-> ListOf(st.regs, 1, ev.name),
                  from |-> from, returned |-> FALSE, marked |-> <<>>, atEnd |-> <<>>]
        me == Len(st.passes) + 1
        st0 == log([st EXCEPT !.passes = Append(@, began)])
    IN  IF st0.err # NoErr THEN st0
        ELSE IF ev.name \notin DOMAIN st.regs[1].handlers
        THEN Returned(log(st0), me)
        ELSE
        LET done == forEach(st0, 1, ev, me, 1, Len(st0.regs[1].handlers[ev.name]), <<>>)
            st1 == [done.st EXCEPT !.passes[me].marked = done.recycled,
                                   !.passes[me].atEnd = done.st.regs[1].handlers[ev.name]]
        IN  IF st1.err # NoErr THEN st1
            ELSE IF done.recycled = <<>> THEN Returned(log(st1), me)
            ELSE Returned(
                     log(log([st1 EXCEPT !.regs[1].handlers[ev.name] =
                                             Compact(@, done.recycled)])),
                     me)

\* Faulty variant of publish: the stale records are removed also when a
\* handler's exception leaves the call, as in a finally block.
publishFinally(st, r, ev, from) ==
    LET began == [reg |-> r, ev |-> ev, list |-> ListOf(st.regs, r, ev.name),
                  from |-> from, returned |-> FALSE, marked |-> <<>>, atEnd |-> <<>>]
        me == Len(st.passes) + 1
        st0 == log([st EXCEPT !.passes = Append(@, began)])
    IN  IF st0.err # NoErr THEN st0
        ELSE IF ev.name \notin DOMAIN st.regs[r].handlers
        THEN Returned(log(st0), me)
        ELSE
        LET done == forEach(st0, r, ev, me, 1, Len(st0.regs[r].handlers[ev.name]), <<>>)
            st1 == [done.st EXCEPT !.passes[me].marked = done.recycled,
                                   !.passes[me].atEnd = done.st.regs[r].handlers[ev.name]]
        IN  IF st1.err # NoErr
            THEN [st1 EXCEPT !.regs[r].handlers[ev.name] = Compact(@, done.recycled)]
            ELSE IF done.recycled = <<>> THEN Returned(log(st1), me)
            ELSE Returned(
                     log(log([st1 EXCEPT !.regs[r].handlers[ev.name] =
                                             Compact(@, done.recycled)])),
                     me)

\* BeanLink.publish(event), called from inside publish call `from` (0: not
\* from inside a publish call).
publish(st, r, ev, from) ==
    LET began == [reg |-> r, ev |-> ev, list |-> ListOf(st.regs, r, ev.name),
                  from |-> from, returned |-> FALSE, marked |-> <<>>, atEnd |-> <<>>]
        me == Len(st.passes) + 1
        st0 == log([st EXCEPT !.passes = Append(@, began)])
    IN  IF st0.err # NoErr THEN st0
        ELSE IF ev.name \notin DOMAIN st.regs[r].handlers
        THEN Returned(log(st0), me)
        ELSE
        LET done == forEach(st0, r, ev, me, 1, Len(st0.regs[r].handlers[ev.name]), <<>>)
            st1 == [done.st EXCEPT !.passes[me].marked = done.recycled,
                                   !.passes[me].atEnd = done.st.regs[r].handlers[ev.name]]
        IN  IF st1.err # NoErr THEN st1
            ELSE IF done.recycled = <<>> THEN Returned(log(st1), me)
            ELSE Returned(
                     log(log([st1 EXCEPT !.regs[r].handlers[ev.name] =
                                             Compact(@, done.recycled)])),
                     me)

----------------------------------------------------------------------------
(* Scope resolution. *)

\* BeanLink.featureMap.get(context), or the empty array.
FeaturesOf(context) ==
    IF context \in DOMAIN featureMap THEN featureMap[context] ELSE <<>>

RECURSIVE getInstance(_, _, _)
RECURSIVE initialiseFeatures(_, _, _, _, _)

\* cb(beanLinkInstance): the body of the init callback, run in component p.
runCallback(st, cb, b, p) ==
    LET st1 == [st EXCEPT !.cbs = Append(@, [cb |-> cb, reg |-> b,
                                             seen |-> st.ctx[p].beanLink])]
    IN  CASE cb = "cbSub" -> on(st1, b, "testEvent", "hA", "false", "absent")
          [] cb = "cbResolve" -> getInstance(st1, p, "C")
          [] cb = "cbThrow" -> Throw(st1, "callback")

\* Faulty variant of initialiseFeatures: only the first callback of the array runs.
initialiseFirstFeature(st, context, b, p, k) ==
    IF st.err # NoErr \/ k > Min(1, Len(FeaturesOf(context))) THEN st
    ELSE initialiseFeatures(runCallback(st, FeaturesOf(context)[k], b, p),
                            context, b, p, k + 1)

\* Faulty variant of initialiseFeatures: the array is walked from its end.
initialiseFeaturesReversed(st, context, b, p, k) ==
    IF st.err # NoErr \/ k > Len(FeaturesOf(context)) THEN st
    ELSE initialiseFeatures(
             runCallback(st, FeaturesOf(context)[Len(FeaturesOf(context)) + 1 - k], b, p),
             context, b, p, k + 1)

\* BeanLink.initialiseFeatures(context, beanLinkInstance): callbacks k.. of the array.
initialiseFeatures(st, context, b, p, k) ==
    IF st.err # NoErr \/ k > Len(FeaturesOf(context)) THEN st
    ELSE initialiseFeatures(runCallback(st, FeaturesOf(context)[k], b, p),
                            context, b, p, k + 1)

\* Faulty variant of NewBeanLink: the constructor does not keep the name.
NewBeanLinkUnnamed(name) == [name |-> "", handlers |-> <<>>]

\* Faulty variant of NewBeanLink: the Map of handlers is shared by the
\* instances of one name.
NewBeanLinkShared(name) ==
    IF \E r \in DOMAIN regs : regs[r].name = name
    THEN [name |-> name,
          handlers |-> regs[CHOOSE r \in DOMAIN regs : regs[r].name = name].handlers]
    ELSE [name |-> name, handlers |-> <<>>]

\* new BeanLink(name)
NewBeanLink(name) == [name |-> name, handlers |-> <<>>]

\* Faulty variant of MustCreate: the name of the instance in the context is not
\* compared with the contextId.
MustCreateIfNamed(rs, beanLink, contextId) ==
    beanLink = Undef \/ Truthy(contextId)

\* Faulty variant of MustCreate: the contextId is compared with the name of
\* the instance in the context even when it is absent or empty.
MustCreateIfDifferent(rs, beanLink, contextId) ==
    beanLink = Undef \/ contextId # rs[beanLink].name

\* !beanLink || (contextId && (contextId !== beanLink.name))
MustCreate(rs, beanLink, contextId) ==
    beanLink = Undef \/ (Truthy(contextId) /\ contextId # rs[beanLink].name)

\* Faulty variant of getInstance: setContext('parentBeanLink', ...) is left out.
getInstanceKeepsParentKey(st, p, contextId) ==
    LET beanLink == st.ctx[p].beanLink IN
    IF ~MustCreate(st.regs, beanLink, contextId)
    THEN [st EXCEPT !.ret = <<beanLink, beanLink>>]
    ELSE IF ~Truthy(contextId) THEN Throw(st, "NoActiveScope")
    ELSE IF Len(st.regs) >= MaxRegs THEN Throw(st, OutOfBounds)
    ELSE
    LET fresh == Len(st.regs) + 1
        st1 == [st EXCEPT !.regs = Append(@, NewBeanLink(contextId))]
        st2 == initialiseFeatures(st1, contextId, fresh, p, 1)
    IN  IF st2.err # NoErr THEN st2
        ELSE
        LET parentBeanLink == st2.ctx[p].beanLink
        IN  [st2 EXCEPT !.ctx[p].beanLink = fresh,
                        !.ret = <<fresh, parentBeanLink>>]

\* Faulty variant of getInstance: setContext('beanLink', ...) comes before
\* the init callbacks run.
getInstanceWritesFirst(st, p, contextId) ==
    LET beanLink == st.ctx[p].beanLink IN
    IF ~MustCreate(st.regs, beanLink, contextId)
    THEN [st EXCEPT !.ret = <<beanLink, beanLink>>]
    ELSE IF ~Truthy(contextId) THEN Throw(st, "NoActiveScope")
    ELSE IF Len(st.regs) >= MaxRegs THEN Throw(st, OutOfBounds)
    ELSE
    LET fresh == Len(st.regs) + 1
        st1 == [st EXCEPT !.regs = Append(@, NewBeanLink(contextId)),
                          !.ctx[p].beanLink = fresh]
        st2 == initialiseFeatures(st1, contextId, fresh, p, 1)
    IN  IF st2.err # NoErr THEN st2
        ELSE
        LET parentBeanLink == beanLink
        IN  [st2 EXCEPT !.ctx[p] = [beanLink |-> fresh,
                                    parentBeanLink |-> parentBeanLink],
                        !.ret = <<fresh, parentBeanLink>>]

\* BeanLink.getInstance(contextId), called in component p.
getInstance(st, p, contextId) ==
    LET beanLink == st.ctx[p].beanLink IN
    IF ~MustCreate(st.regs, beanLink, contextId)
    THEN [st EXCEPT !.ret = <<beanLink, beanLink>>]
    ELSE IF ~Truthy(contextId) THEN Throw(st, "NoActiveScope")
    ELSE IF Len(st.regs) >= MaxRegs THEN Throw(st, OutOfBounds)
    ELSE
    LET fresh == Len(st.regs) + 1
        st1 == [st EXCEPT !.regs = Append(@, NewBeanLink(contextId))]
        st2 == initialiseFeatures(st1, contextId, fresh, p, 1)
    IN  IF st2.err # NoErr THEN st2
        ELSE
        LET parentBeanLink == st2.ctx[p].beanLink
        IN  [st2 EXCEPT !.ctx[p] = [beanLink |-> fresh,
                                    parentBeanLink |-> parentBeanLink],
                        !.ret = <<fresh, parentBeanLink>>]

----------------------------------------------------------------------------
(* The state machine. *)

\* The record of a call: its arguments (the fields a call does not take hold
\* "-" or 0), and from the memory it ended with, what it returned, threw and ran.
Call(op, pos, id, reg, ev, h, weak, pred, res) ==
    [op |-> op, pos |-> pos, id |-> id, reg |-> reg, ev |-> ev, h |-> h,
     weak |-> weak, pred |-> pred, ret |-> res.ret, err |-> res.err,
     log |-> res.log, passes |-> res.passes, cbs |-> res.cbs,
     evals |-> res.evals, setups |-> res.setups]

NoEv == [name |-> "-", value |-> 0]

Init ==
    /\ regs = <<>>
    /\ ctx = <<[beanLink |-> Undef, parentBeanLink |-> Undef]>>
    /\ featureMap = <<>>
    /\ alive = Handlers
    /\ nextSub = 0
    /\ eventNames = <<>>
    /\ features = <<>>
    /\ last = Call("init", 0, "-", 0, NoEv, "-", "-", "-", Start)

\* The memory a call leaves behind, whether it returned or threw.
Commit(res) ==
    /\ res.err # OutOfBounds
    /\ regs' = res.regs
    /\ ctx' = res.ctx
    /\ nextSub' = res.nextSub

\* A component calls BeanLink.getInstance(contextId) while it initialises.
GetInstance(p, contextId) ==
    LET res == getInstance(Start, p, contextId) IN
    /\ Commit(res)
    /\ last' = Call("getInstance", p, contextId, 0, NoEv, "-", "-", "-", res)
    /\ UNCHANGED <<featureMap, alive, eventNames, features>>

\* beanLink.on(ev, h, {weak, predicate}) on instance r, with a handler the
\* caller holds; ev is a string or a creator.
OnEvent(r, ev, h, weak, pred) ==
    LET res == onEvent(Start, r, ev, h, weak, pred) IN
    /\ h \in alive
    /\ Commit(res)
    /\ last' = Call("on", 0, ev.type, r, [name |-> eventName(ev), value |-> 0],
                    h, weak, pred, res)
    /\ UNCHANGED <<featureMap, alive, eventNames, features>>

\* beanLink.on(name, h, {weak, predicate}) with a string.
On(r, name, h, weak, pred) == OnEvent(r, String(name), h, weak, pred)

\* The creators the application holds: those createEvent returned.
Creators == {[name |-> n] : n \in DOMAIN eventNames}

\* createEvent(name)
CreateEvent(name) ==
    LET res == createEvent(eventNames, name) IN
    /\ eventNames' = res.eventNames
    /\ last' = Call("createEvent", 0, name, 0, NoEv, "-", "-", "-",
                    [Start EXCEPT !.ret = res.ret, !.err = res.err])
    /\ UNCHANGED <<regs, ctx, featureMap, alive, nextSub, features>>

\* beanLink.publish(ev) on instance r, with console.log working or throwing.
PublishSink(r, ev, sink) ==
    LET res == publish([Start EXCEPT !.sink = sink], r, ev, 0) IN
    /\ Commit(res)
    /\ last' = Call("publish", 0, "-", r, ev, "-", "-", "-", res)
    /\ UNCHANGED <<featureMap, alive, eventNames, features>>

\* beanLink.publish(ev) on instance r.
Publish(r, ev) == PublishSink(r, ev, "ok")

\* The number of init callbacks registered.
RECURSIVE SumLen(_, _)
SumLen(f, keys) ==
    IF keys = {} THEN 0
    ELSE LET k == CHOOSE x \in keys : TRUE
         IN  Len(f[k]) + SumLen(f, keys \ {k})

\* Faulty variant of RegisterFeature: the callback is put at the front of
\* the array.
RegisterFeatureFirst(context, cb) ==
    /\ SumLen(featureMap, DOMAIN featureMap) < MaxFeatures
    /\ cb = "cbSub" => "hA" \in alive
    /\ featureMap' = (context :> (<<cb>> \o FeaturesOf(context))) @@ featureMap
    /\ last' = Call("registerFeature", 0, context, 0, NoEv, cb, "-", "-", Start)
    /\ UNCHANGED <<regs, ctx, alive, nextSub, eventNames, features>>

\* BeanLink.registerFeature(context, featureName, initCallback).  cbSub closes
\* over hA.
RegisterFeature(context, cb) ==
    /\ SumLen(featureMap, DOMAIN featureMap) < MaxFeatures
    /\ cb = "cbSub" => "hA" \in alive
    /\ featureMap' = (context :> Append(FeaturesOf(context), cb)) @@ featureMap
    /\ last' = Call("registerFeature", 0, context, 0, NoEv, cb, "-", "-", Start)
    /\ UNCHANGED <<regs, ctx, alive, nextSub, eventNames, features>>

\* The Feature objects of the application: two objects of one name, whose
\* setup() registers the subscribing callback for context 'A' and for
\* context 'B', and one object of another name, whose setup() registers for
\* context 'A' a callback that resolves an instance.
FeatureObjects ==
    { [obj |-> 1, name |-> "Booking", context |-> "A", cb |-> "cbSub"],
      [obj |-> 2, name |-> "Booking", context |-> "B", cb |-> "cbSub"],
      [obj |-> 3, name |-> "Audit", context |-> "A", cb |-> "cbResolve"] }

\* feature.setup(): BeanLink.registerFeature(context, this.name, cb), as it
\* leaves the feature map fm.
setup(fm, f) ==
    (f.context :> Append(IF f.context \in DOMAIN fm THEN fm[f.context] ELSE <<>>,
                         f.cb)) @@ fm

\* Faulty variant of ManagerRegisterFeature: setup() is called only for a
\* feature whose name is not recorded yet.
ManagerRegisterFeatureOnce(f) ==
    /\ SumLen(featureMap, DOMAIN featureMap) < MaxFeatures
    /\ f.cb = "cbSub" => "hA" \in alive
    /\ features' = (f.name :> f.obj) @@ features
    /\ featureMap' = IF f.name \in DOMAIN features THEN featureMap
                     ELSE setup(featureMap, f)
    /\ last' = Call("managerRegisterFeature", f.obj, f.name, 0, NoEv, f.cb, "-", "-",
                    [Start EXCEPT !.setups = IF f.name \in DOMAIN features
                                             THEN 0 ELSE 1])
    /\ UNCHANGED <<regs, ctx, alive, nextSub, eventNames>>

\* FeatureManager.instance.registerFeature(feature): features.set(name,
\* feature), then feature.setup().  (In the record of the call, pos is the
\* Feature object and id its name.)
ManagerRegisterFeature(f) ==
    /\ SumLen(featureMap, DOMAIN featureMap) < MaxFeatures
    /\ f.cb = "cbSub" => "hA" \in alive
    /\ features' = (f.name :> f.obj) @@ features
    /\ featureMap' = setup(featureMap, f)
    /\ last' = Call("managerRegisterFeature", f.obj, f.name, 0, NoEv, f.cb, "-", "-",
                    [Start EXCEPT !.setups = 1])
    /\ UNCHANGED <<regs, ctx, alive, nextSub, eventNames>>

\* Something other than a WeakRef holds handler h: a subscription that stores
\* the function itself, or the closure of a registered cbSub.
StronglyHeld(h) ==
    \/ \E r \in 1..Len(regs) : \E n \in DOMAIN regs[r].handlers :
          \E i \in 1..Len(regs[r].handlers[n]) :
             /\ regs[r].handlers[n][i].h = h
             /\ ~regs[r].handlers[n][i].weak
    \/ /\ h = "hA"
       /\ \E c \in DOMAIN featureMap : \E i \in 1..Len(featureMap[c]) :
             featureMap[c][i] = "cbSub"

\* The owner of handler h drops it and the collector reclaims it: every
\* WeakRef to it now derefs to undefined.
Reclaim(h) ==
    /\ h \in alive
    /\ ~StronglyHeld(h)
    /\ alive' = alive \ {h}
    /\ last' = Call("reclaim", 0, "-", 0, NoEv, h, "-", "-", Start)
    /\ UNCHANGED <<regs, ctx, featureMap, nextSub, eventNames, features>>

\* A child component of component p is created: it starts with its parent's
\* context.
NewComponent(p) ==
    /\ Len(ctx) < MaxPos
    /\ ctx' = Append(ctx, ctx[p])
    /\ last' = Call("newComponent", p, "-", 0, NoEv, "-", "-", "-", Start)
    /\ UNCHANGED <<regs, featureMap, alive, nextSub, eventNames, features>>

Next ==
    \/ \E p \in 1..Len(ctx), contextId \in ContextIds : GetInstance(p, contextId)
    \/ \E r \in 1..Len(regs), name \in EventNames, h \in Handlers,
          weak \in WeakOpts, pred \in Preds : On(r, name, h, weak, pred)
    \/ \E r \in 1..Len(regs), c \in Creators, h \in Handlers,
          weak \in WeakOpts, pred \in Preds : OnEvent(r, Object(c), h, weak, pred)
    \/ \E r \in 1..Len(regs), c \in Creators, value \in Values :
          Publish(r, event(c, value))
    \/ \E r \in 1..Len(regs), name \in EventNames, value \in Values :
          PublishSink(r, [name |-> name, value |-> value], "throws")
    \/ \E name \in CreatorNames : CreateEvent(name)
    \/ \E r \in 1..Len(regs), name \in EventNames, value \in Values :
          Publish(r, [name |-> name, value |-> value])
    \/ \E context \in ContextNames, cb \in Callbacks : RegisterFeature(context, cb)
    \/ \E f \in FeatureObjects : ManagerRegisterFeature(f)
    \/ \E h \in Handlers : Reclaim(h)
    \/ \E p \in 1..Len(ctx) : NewComponent(p)

Spec == Init /\ [][Next]_vars

----------------------------------------------------------------------------
(* The drivers of the state machine.  publish and on read and write only   *)
(* the handler arrays and the liveness of handlers; getInstance and        *)
(* registerFeature read and write only the instances, the contexts and the *)
(* featureMap; createEvent reads and writes only the Map of event names.   *)
(* Each driver takes the steps of Next that exercise one of these, with    *)
(* the others kept small.                                                  *)
(***************************************************************************)

\* Some WeakRef refers to handler h.
WeaklyHeld(h) ==
    \E r \in 1..Len(regs) : \E n \in DOMAIN regs[r].handlers :
       \E i \in 1..Len(regs[r].handlers[n]) :
          /\ regs[r].handlers[n][i].h = h
          /\ regs[r].handlers[n][i].weak

\* The on() calls of the dispatch driver: hA with every combination of the
\* options, the other handlers without options.
OnArgs ==
    ({"hA"} \X WeakOpts \X Preds)
        \cup ({"hB", "hPub", "hSub", "hThrow"} \X {"absent"} \X {"absent"})

\* Dispatch: one instance, every subscription and every publish on it, and
\* the reclamation of the handlers a WeakRef can observe.
NextDispatch ==
    \/ regs = <<>> /\ GetInstance(1, "A")
    \/ \E r \in 1..Len(regs), name \in EventNames, a \in OnArgs :
          nextSub < MaxDispatchSubs /\ On(r, name, a[1], a[2], a[3])
    \/ \E r \in 1..Len(regs), name \in EventNames, value \in Values :
          Publish(r, [name |-> name, value |-> value])
    \/ \E h \in Handlers : WeaklyHeld(h) /\ Reclaim(h)

SpecDispatch == Init /\ [][NextDispatch]_vars

\* Scope resolution: every getInstance in every component, the features
\* (whose cbSub subscribes hA to 'testEvent'), and 'testEvent' published on
\* every instance.
NextScope ==
    \/ \E p \in 1..Len(ctx), contextId \in ContextIds : GetInstance(p, contextId)
    \/ \E p \in 1..Len(ctx) : NewComponent(p)
    \/ \E context \in ContextNames, cb \in Callbacks : RegisterFeature(context, cb)
    \/ \E r \in 1..Len(regs) : Publish(r, [name |-> "testEvent", value |-> 1])

SpecScope == Init /\ [][NextScope]_vars

\* The on() calls of the failure driver: hA held weakly, hB and hPub without
\* options, hThrow without options and with the predicate value === 1, and
\* hB with a predicate that throws.
AbortArgs ==
    {<<"hA", "true", "absent">>, <<"hB", "absent", "absent">>,
     <<"hPub", "absent", "absent">>, <<"hThrow", "absent", "absent">>,
     <<"hThrow", "absent", "isOne">>, <<"hB", "absent", "pThrow">>}

\* Failures during dispatch: one instance and one event name, subscriptions
\* of a handler held weakly, of handlers that return, re-publish or throw,
\* the reclamation of the weakly held handler, and publish with console.log
\* working or throwing.
NextAbort ==
    \/ regs = <<>> /\ GetInstance(1, "A")
    \/ \E r \in 1..Len(regs), a \in AbortArgs : On(r, "testEvent", a[1], a[2], a[3])
    \/ \E r \in 1..Len(regs), value \in Values :
          Publish(r, [name |-> "testEvent", value |-> value])
    \/ \E r \in 1..Len(regs), value \in Values :
          PublishSink(r, [name |-> "testEvent", value |-> value], "throws")
    \/ \E h \in Handlers : WeaklyHeld(h) /\ Reclaim(h)

SpecAbort == Init /\ [][NextAbort]_vars

\* The on() calls of the frame driver: hA held weakly and hB.
FrameArgs == {<<"hA", "true", "absent">>, <<"hB", "absent", "absent">>}

\* What a publish leaves alone: two instances (the second a child of the
\* first), a feature and an event creator, subscriptions of hA (held weakly)
\* and hB under both names on both instances, the reclamation of hA, and
\* every publish.  No handler and no callback of this driver calls the
\* library.
NextFrame ==
    \/ \E contextId \in ContextNames :
          /\ Len(regs) < 2
          /\ \A r \in DOMAIN regs : regs[r].name # contextId
          /\ GetInstance(1, contextId)
    \/ Len(regs) = 2 /\ featureMap = <<>> /\ RegisterFeature("B", "cbThrow")
    \/ CreateEvent("testEvent")
    \/ \E r \in 1..Len(regs), name \in EventNames, a \in FrameArgs :
          nextSub < MaxDispatchSubs /\ On(r, name, a[1], a[2], a[3])
    \/ \E r \in 1..Len(regs), name \in EventNames, value \in Values :
          Publish(r, [name |-> name, value |-> value])
    \/ \E h \in Handlers : WeaklyHeld(h) /\ Reclaim(h)

SpecFrame == Init /\ [][NextFrame]_vars

\* Features: every registration of a Feature object with the FeatureManager,
\* the instances one component resolves by name, and publish on them.
NextFeatures ==
    \/ \E f \in FeatureObjects : ManagerRegisterFeature(f)
    \/ \E contextId \in ContextNames : GetInstance(1, contextId)
    \/ \E r \in 1..Len(regs) : Publish(r, [name |-> "testEvent", value |-> 1])

SpecFeatures == Init /\ [][NextFeatures]_vars

\* The event catalog: every createEvent, and on one instance the
\* subscriptions of hA and hB (held strongly) by creator and by string, and
\* the publishing of the events the creators build.
NextCatalog ==
    \/ regs = <<>> /\ GetInstance(1, "A")
    \/ \E name \in CreatorNames : CreateEvent(name)
    \/ \E r \in 1..Len(regs), c \in Creators, h \in {"hA", "hB"} :
          nextSub < MaxDispatchSubs /\ OnEvent(r, Object(c), h, "false", "absent")
    \/ \E r \in 1..Len(regs), name \in CreatorNames, h \in {"hA", "hB"} :
          nextSub < MaxDispatchSubs /\ On(r, name, h, "false", "absent")
    \/ \E r \in 1..Len(regs), c \in Creators, value \in Values :
          Publish(r, event(c, value))

SpecCatalog == Init /\ [][NextCatalog]_vars

----------------------------------------------------------------------------
(* What the claims speak of, read from the record of the most recent call. *)

\* The handler of subscription sub has not been reclaimed, or is held strongly.
Live(sub) == ~(sub.weak /\ sub.h \notin alive)

\* The predicate of subscription sub, if it has one, is true of event ev.
PredTrue(sub, ev) == sub.pred = "absent" \/ (sub.pred = "isOne" /\ ev.value = 1)

\* The positions in the log of the invocations publish call i made of the
\* subscription record with identity id.
Invocations(i, id) ==
    {k \in DOMAIN last.log : last.log[k].pass = i /\ last.log[k].sub.id = id}

\* The positions in the log of the invocations publish call i made of handler h.
InvocationsOf(i, h) ==
    {k \in DOMAIN last.log : last.log[k].pass = i /\ last.log[k].sub.h = h}

\* The identities of the records of a list.
Ids(list) == {list[k].id : k \in DOMAIN list}

\* The list the most recent publish was for, before and after the call.
PreList == last.passes[1].list
PostList == ListOf(regs, last.reg, last.ev.name)

----------------------------------------------------------------------------
(* Dispatch (checked under SpecDispatch). *)

\* C1: a handler H subscribed once on R for N, without predicate and live, is
\* invoked exactly once, with the published envelope, by every publish call
\* for N on R that returns; and a publish call for a name H has no
\* subscription under never invokes H.
C1_DispatchCorrectness ==
    last.op = "publish" =>
        \A i \in DOMAIN last.passes :
            LET P == last.passes[i] IN
            /\ P.returned =>
                 \A k \in DOMAIN P.list :
                     LET H == P.list[k] IN
                     ( /\ H.pred = "absent"
                       /\ Live(H)
                       /\ \A j \in DOMAIN P.list : P.list[j].h = H.h => j = k )
                     => /\ Cardinality(InvocationsOf(i, H.h)) = 1
                        /\ \A e \in InvocationsOf(i, H.h) : last.log[e].ev = P.ev
            /\ \A h \in Handlers :
                 ( /\ \A k \in DOMAIN P.list : P.list[k].h # h
                   /\ \A k \in DOMAIN ListOf(regs, P.reg, P.ev.name) :
                         ListOf(regs, P.reg, P.ev.name)[k].h # h )
                 => InvocationsOf(i, h) = {}

\* C2: a publish call invokes the subscriptions in the order they were
\* subscribed in, and when it returns every subscription of the list that
\* matches the envelope (handler live, predicate absent or true) has been
\* invoked with it.
C2_OrderedSynchronous ==
    last.op = "publish" =>
        \A i \in DOMAIN last.passes :
            LET P == last.passes[i] IN
            /\ \A a, b \in DOMAIN last.log :
                 (a < b /\ last.log[a].pass = i /\ last.log[b].pass = i)
                 => last.log[a].sub.id < last.log[b].sub.id
            /\ P.returned =>
                 \A k \in DOMAIN P.list :
                     (Live(P.list[k]) /\ PredTrue(P.list[k], P.ev))
                     => \E e \in DOMAIN last.log :
                           /\ last.log[e].sub.id = P.list[k].id
                           /\ last.log[e].ev = P.ev

\* C3: on() without the weak option stores the handler behind a WeakRef.
C3_WeakByDefault ==
    (last.op = "on" /\ last.weak = "absent") =>
        LET list == ListOf(regs, last.reg, last.ev.name)
        IN  list[Len(list)].weak

\* C4: a publish call that returns never invokes a subscription whose
\* handler has been reclaimed, and leaves the list shorter by exactly the
\* subscriptions that were stale: none of them is left, and of the records the
\* list held before the call as many are left as were not stale.
C4_WeakPruning ==
    (last.op = "publish" /\ last.passes[1].returned) =>
        /\ \A e \in DOMAIN last.log : Live(last.log[e].sub)
        /\ \A k \in DOMAIN PostList : Live(PostList[k])
        /\ Cardinality({k \in DOMAIN PostList : PostList[k].id \in Ids(PreList)})
              = Cardinality({k \in DOMAIN PreList : Live(PreList[k])})

\* C5: in a publish call that returns, a subscription with a predicate is
\* invoked if and only if its handler is live and the predicate is true of
\* the envelope, and a live subscription without a predicate is invoked; in
\* every publish call, a subscription whose predicate is false of the envelope
\* is not invoked.
C5_PredicateFiltering ==
    last.op = "publish" =>
        \A i \in DOMAIN last.passes :
            LET P == last.passes[i] IN
            \A k \in DOMAIN P.list :
                LET H == P.list[k] IN
                /\ ~PredTrue(H, P.ev) => Invocations(i, H.id) = {}
                /\ P.returned =>
                     (Invocations(i, H.id) # {} <=> (Live(H) /\ PredTrue(H, P.ev)))

\* C6: no publish removes a subscription whose handler is held strongly or is
\* still alive.
C6_OnlyStaleRemoved ==
    last.op = "publish" =>
        \A k \in DOMAIN PreList :
            Live(PreList[k]) => \E j \in DOMAIN PostList : PostList[j] = PreList[k]

----------------------------------------------------------------------------
(* Scope resolution (checked under SpecScope). *)

\* C7: publish on an instance invokes only subscriptions of that instance's
\* own list, never one held by its parent, a child or any other instance.
C7_NoPropagation ==
    last.op = "publish" =>
        \A e \in DOMAIN last.log :
            /\ last.log[e].sub.id \in Ids(PreList) \cup Ids(PostList)
            /\ \A q \in (1..Len(regs)) \ {last.reg} :
                 \A n \in DOMAIN regs[q].handlers :
                     last.log[e].sub.id \notin Ids(regs[q].handlers[n])

\* A publish on an instance invoked a handler while the instance that is its
\* parent or its child in some component holds a subscription for the same
\* event name.
C7_Witness ==
    /\ last.op = "publish"
    /\ last.log # <<>>
    /\ \E p \in DOMAIN ctx : \E q \in (1..Len(regs)) \ {last.reg} :
          /\ {ctx[p].beanLink, ctx[p].parentBeanLink} = {last.reg, q}
          /\ ListOf(regs, q, last.ev.name) # <<>>

\* What getInstance would do if it were called again as the most recent call was.
Again == getInstance(Start, last.pos, last.id)

\* C8: after a getInstance that returned, the same call in the same component
\* returns the same instance and constructs none; and no call other than a
\* getInstance in that component changes what the component's context holds
\* or the name of an instance.
C8_IdempotentReuse ==
    /\ []((last.op = "getInstance" /\ last.err = NoErr) =>
            /\ Again.err = NoErr
            /\ Again.ret[1] = last.ret[1]
            /\ Again.regs = regs)
    /\ [][\A p \in DOMAIN ctx :
            (last'.op # "getInstance" \/ last'.pos # p) =>
                /\ ctx'[p] = ctx[p]
                /\ \A r \in DOMAIN regs : regs'[r].name = regs[r].name]_vars

\* A getInstance with a name returned the instance of that name the context
\* already held.
C8_Witness ==
    /\ last.op = "getInstance"
    /\ last.err = NoErr
    /\ Truthy(last.id)
    /\ last.ret[1] = last.ret[2]
    /\ regs[last.ret[1]].name = last.id

\* C9: when the context holds instance A and getInstance is called with a
\* name other than A's, a call that returns has constructed an instance of
\* that name, which it returns as beanLink, with A as parentBeanLink.
C9_ParentLinkage ==
    [][(/\ last'.op = "getInstance"
        /\ last'.err = NoErr
        /\ Truthy(last'.id)
        /\ ctx[last'.pos].beanLink # Undef
        /\ regs[ctx[last'.pos].beanLink].name # last'.id)
       => /\ last'.ret[2] = ctx[last'.pos].beanLink
          /\ last'.ret[1] > Len(regs)
          /\ regs'[last'.ret[1]].name = last'.id]_vars

\* C10: getInstance without a contextId in a component whose context holds
\* no instance throws, constructs no instance, runs no init callback and
\* leaves the context as it was.
C10_NoActiveScope ==
    [][(/\ last'.op = "getInstance"
        /\ last'.id = NoId
        /\ ctx[last'.pos].beanLink = Undef)
       => /\ last'.err = "NoActiveScope"
          /\ regs' = regs
          /\ ctx' = ctx
          /\ nextSub' = nextSub
          /\ last'.cbs = <<>>]_vars

\* A getInstance without a contextId threw for want of an instance, with a
\* feature registered.
C10_Witness ==
    /\ last.op = "getInstance"
    /\ last.id = NoId
    /\ last.err = "NoActiveScope"
    /\ featureMap # <<>>

C12_ContextKeys ==
    (last.op = "getInstance" /\ last.id = NoId /\ last.err = NoErr) =>
        /\ last.ret[1] = ctx[last.pos].beanLink
        /\ last.ret[2] = ctx[last.pos].parentBeanLink

\* C13: a getInstance that returns yields an instance as beanLink and an
\* instance as parentBeanLink; neither is undefined.
C13_PairNotAbsent ==
    (last.op = "getInstance" /\ last.err = NoErr) =>
        /\ last.ret[1] # Undef
        /\ last.ret[2] # Undef

\* The init callbacks registered under a context name (the empty array when
\* there are none), read from the featureMap.
Registered(context) ==
    IF context \in DOMAIN featureMap THEN featureMap[context] ELSE <<>>

\* C14: a getInstance that constructs an instance for a name and returns has
\* run every init callback registered under that name once per registration,
\* each with the new instance, and no other callback; a getInstance that
\* returns an instance the context already held runs none; and a subscription
\* an init callback made is invoked by every later publish of its event on
\* the instance.
C14_FeatureAutoAttach ==
    /\ [][(last'.op = "getInstance" /\ last'.err = NoErr) =>
            IF last'.ret[1] <= Len(regs) THEN last'.cbs = <<>>
            ELSE /\ \A k \in DOMAIN last'.cbs : last'.cbs[k].reg = last'.ret[1]
                 /\ \A cb \in Callbacks :
                       Cardinality({k \in DOMAIN last'.cbs : last'.cbs[k].cb = cb})
                         = Cardinality({k \in DOMAIN Registered(last'.id) :
                                           Registered(last'.id)[k] = cb})]_vars
    /\ [](last.op = "publish" =>
            \A k \in DOMAIN PreList :
                /\ Cardinality(Invocations(1, PreList[k].id)) = 1
                /\ \A e \in Invocations(1, PreList[k].id) : last.log[e].ev = last.ev)

\* A publish on an instance invoked the subscription that an init callback
\* registered under the instance's name made when the instance was constructed.
C14_Witness ==
    /\ last.op = "publish"
    /\ last.log # <<>>
    /\ \E k \in DOMAIN Registered(regs[last.reg].name) :
          Registered(regs[last.reg].name)[k] = "cbSub"

\* C15: a getInstance that constructs an instance for a name runs the init
\* callbacks registered under the name in the order of their registration,
\* and each of them runs before the new instance is written to the context:
\* none finds the new instance under 'beanLink'.
C15_CallbacksBeforeWrite ==
    [][(/\ last'.op = "getInstance"
        /\ last'.err = NoErr
        /\ last'.ret[1] > Len(regs))
       => /\ [k \in DOMAIN last'.cbs |-> last'.cbs[k].cb] = Registered(last'.id)
          /\ \A k \in DOMAIN last'.cbs : last'.cbs[k].seen # last'.ret[1]
          /\ ctx'[last'.pos].beanLink = last'.ret[1]]_vars

\* A getInstance constructed an instance under whose name two different init
\* callbacks were registered, and returned.
C15_Witness ==
    /\ last.op = "getInstance"
    /\ last.err = NoErr
    /\ Len(last.cbs) = 2
    /\ last.cbs[1].cb # last.cbs[2].cb

----------------------------------------------------------------------------
(* The event catalog (checked under SpecCatalog). *)

\* C16: createEvent(name) throws when an earlier createEvent(name) succeeded,
\* whatever the name, and the call that throws leaves the Map of event names
\* as it was.
C16_DuplicateEventName ==
    [][(last'.op = "createEvent" /\ last'.id \in DOMAIN eventNames)
       => /\ last'.err = "DuplicateEventName"
          /\ eventNames' = eventNames]_vars

\* C19: the creator createEvent(name) returns carries that name and builds
\* {name, value} from a value; and for every creator the application holds,
\* on(creator, H) leaves the instance exactly as on(creator.name, H) does,
\* with one record more at the end of the list of that name, after which
\* publish(creator.event(v)) invokes every subscription of that list, the new
\* one included, once with {name, v}.
C19_CreatorEquivalence ==
    /\ (last.op = "createEvent" /\ last.err = NoErr) =>
          /\ last.ret.name = last.id
          /\ \A v \in Values : event(last.ret, v) = [name |-> last.id, value |-> v]
    /\ \A c \in Creators : \A r \in 1..Len(regs) : \A h \in {"hA", "hB"} :
          LET byCreator == onEvent(Start, r, Object(c), h, "false", "absent")
              byName == onEvent(Start, r, String(c.name), h, "false", "absent")
              list == ListOf(byCreator.regs, r, c.name)
          IN  byCreator.err = NoErr =>
                /\ byCreator.regs = byName.regs
                /\ Len(list) = Len(ListOf(regs, r, c.name)) + 1
                /\ SubSeq(list, 1, Len(list) - 1) = ListOf(regs, r, c.name)
                /\ list[Len(list)].h = h
                /\ \A v \in Values :
                      LET pub == publish(byCreator, r, event(c, v), 0) IN
                      \A k \in DOMAIN list :
                          /\ Cardinality({e \in DOMAIN pub.log :
                                             pub.log[e].sub.id = list[k].id}) = 1
                          /\ \A e \in DOMAIN pub.log :
                                pub.log[e].ev = [name |-> c.name, value |-> v]

\* on() was called with a creator on a list that already held a subscription.
C19_Witness ==
    /\ last.op = "on"
    /\ last.id = "object"
    /\ last.err = NoErr
    /\ Len(PostList) >= 2

----------------------------------------------------------------------------
(* Failures during dispatch (checked under SpecAbort). *)

\* The subscription a publish call that did not return was invoking when the
\* exception reached it: the last one it invoked.
InFlight(i) ==
    last.log[CHOOSE e \in DOMAIN last.log :
                 /\ last.log[e].pass = i
                 /\ \A f \in DOMAIN last.log : last.log[f].pass = i => f <= e].sub

\* C17: when a handler throws during a publish call, the exception leaves
\* that call and every call it was made from, nothing is invoked after the
\* throw, and in each call the exception leaves, no subscription later in the
\* list than the one being invoked is invoked, while every earlier one that
\* matches the envelope (handler live, predicate absent or true) has been
\* invoked with it.
C17_HandlerThrowAborts ==
    last.op = "publish" =>
        /\ \A e \in DOMAIN last.log :
              last.log[e].sub.h = "hThrow" =>
                  /\ last.err = "handler"
                  /\ e = Len(last.log)
                  /\ ~last.passes[last.log[e].pass].returned
                  /\ ~last.passes[1].returned
        /\ last.err = "handler" =>
              \A i \in DOMAIN last.passes :
                  ~last.passes[i].returned =>
                      LET P == last.passes[i] IN
                      \A k \in DOMAIN P.list :
                          /\ P.list[k].id > InFlight(i).id => Invocations(i, P.list[k].id) = {}
                          /\ ( /\ P.list[k].id < InFlight(i).id
                               /\ Live(P.list[k])
                               /\ PredTrue(P.list[k], P.ev) )
                             => \E e \in Invocations(i, P.list[k].id) : last.log[e].ev = P.ev

\* C18: a publish call in which console.log throws still invokes every
\* subscription that matches the envelope and leaves no stale subscription in
\* the list.
C18_SinkFailureHarmless ==
    (last.op = "publish" /\ last.err = "log") =>
        /\ \A k \in DOMAIN PreList :
              (Live(PreList[k]) /\ PredTrue(PreList[k], last.ev))
              => \E e \in Invocations(1, PreList[k].id) : last.log[e].ev = last.ev
        /\ \A k \in DOMAIN PostList : Live(PostList[k])

\* C20: after a publish call that returns, the list is the list as it was
\* when the call's forEach ended, without the records the forEach marked and
\* with the others in their order; and no record the list held when the call
\* began is missing from the list when the forEach ends.
C20_CompactionAfterPass ==
    (last.op = "publish" /\ last.passes[1].returned) =>
        LET P == last.passes[1]
            Kept(sub) == sub.id \notin Ids(P.marked)
        IN  /\ PostList = SelectSeq(P.atEnd, Kept)
            /\ \A k \in DOMAIN P.list : \E j \in DOMAIN P.atEnd : P.atEnd[j] = P.list[k]

----------------------------------------------------------------------------
(* Nested calls. *)

\* C21 (checked under SpecDispatch): every publish call that returns, whether
\* made by the application or by a handler of a running publish call, has
\* invoked exactly once, with its envelope, every subscription of the list it
\* found whose handler is live and whose predicate is absent or true; and
\* the call it was made from invokes nothing between the first and the last
\* invocation of the nested call.
C21_NestedPublish ==
    last.op = "publish" =>
        \A i \in DOMAIN last.passes :
            LET P == last.passes[i] IN
            /\ P.returned =>
                  \A k \in DOMAIN P.list :
                      (Live(P.list[k]) /\ PredTrue(P.list[k], P.ev))
                      => /\ Cardinality(Invocations(i, P.list[k].id)) = 1
                         /\ \A e \in Invocations(i, P.list[k].id) : last.log[e].ev = P.ev
            /\ P.from # 0 =>
                  \A a, b, c \in DOMAIN last.log :
                      (a < b /\ b < c /\ last.log[a].pass = i /\ last.log[c].pass = i)
                      => last.log[b].pass # P.from

\* C22 (checked under SpecScope): a getInstance that constructs an instance
\* returns as parentBeanLink, and writes under 'parentBeanLink', the
\* instance the context held under 'beanLink' when the call began, whatever
\* the init callbacks did.
C22_ParentIsPreviousActive ==
    [][(/\ last'.op = "getInstance"
        /\ last'.err = NoErr
        /\ last'.ret[1] > Len(regs))
       => /\ last'.ret[2] = ctx[last'.pos].beanLink
          /\ ctx'[last'.pos].parentBeanLink = ctx[last'.pos].beanLink]_vars

----------------------------------------------------------------------------
(* The context and the instances (checked under SpecScope). *)

\* What getInstance without a contextId would return in the component of the
\* most recent call.
AgainNoId == getInstance(Start, last.pos, NoId)

\* C23: after a getInstance that returned, the context of the component holds
\* under 'beanLink' the instance returned as beanLink, and a getInstance
\* without a contextId returns that instance; after one that constructed an
\* instance, the context holds under 'parentBeanLink' what was returned as
\* parentBeanLink.
C23_ContextHoldsReturned ==
    /\ []((last.op = "getInstance" /\ last.err = NoErr) =>
            /\ ctx[last.pos].beanLink = last.ret[1]
            /\ AgainNoId.err = NoErr
            /\ AgainNoId.ret[1] = last.ret[1])
    /\ [][(/\ last'.op = "getInstance"
            /\ last'.err = NoErr
            /\ last'.ret[1] > Len(regs))
           => ctx'[last'.pos].parentBeanLink = last'.ret[2]]_vars

\* A getInstance constructed an instance in a component whose context held
\* another one, with an unlike 'parentBeanLink', and returned.
C23_Witness ==
    /\ last.op = "getInstance"
    /\ last.err = NoErr
    /\ last.ret[2] # Undef
    /\ last.ret[1] # last.ret[2]
    /\ \E r \in DOMAIN regs : r \notin {last.ret[1], last.ret[2]}

\* C24 as stated: whenever a contextId is given to getInstance, the empty
\* string included, and the call returns, the instance returned as beanLink
\* has that name.
C24_NameEqualsAnyId ==
    (last.op = "getInstance" /\ last.err = NoErr /\ last.id # NoId) =>
        regs[last.ret[1]].name = last.id

\* C24: whenever a non-empty contextId is given to getInstance and the call
\* returns, the instance returned as beanLink has that name; and no step
\* changes the name of an instance.
C24_NameEqualsId ==
    /\ []((last.op = "getInstance" /\ last.err = NoErr /\ Truthy(last.id)) =>
            regs[last.ret[1]].name = last.id)
    /\ [][/\ Len(regs') >= Len(regs)
           /\ \A r \in DOMAIN regs : regs'[r].name = regs[r].name]_vars

\* A getInstance with a name constructed an instance while the context held
\* an instance of another name.
C24_Witness ==
    /\ last.op = "getInstance"
    /\ last.err = NoErr
    /\ Truthy(last.id)
    /\ last.ret[2] # Undef
    /\ last.ret[1] # last.ret[2]
    /\ regs[last.ret[2]].name # last.id

\* The identities of the subscription records an instance holds.
SubsOf(rs, r) ==
    UNION {Ids(rs[r].handlers[n]) : n \in DOMAIN rs[r].handlers}

\* C25: a getInstance with a name, in a component whose context holds an
\* instance of another name, that returns has constructed an instance: it is
\* none of the instances that existed before, even when one of them has the
\* name, and it holds none of the subscriptions they hold.
C25_AlwaysFresh ==
    [][(/\ last'.op = "getInstance"
        /\ last'.err = NoErr
        /\ Truthy(last'.id)
        /\ ctx[last'.pos].beanLink # Undef
        /\ regs[ctx[last'.pos].beanLink].name # last'.id)
       => /\ last'.ret[1] \notin DOMAIN regs
          /\ last'.ret[1] \in DOMAIN regs'
          /\ \A r \in DOMAIN regs :
                SubsOf(regs', last'.ret[1]) \cap SubsOf(regs', r) = {}]_vars

\* A getInstance constructed an instance with the name of an earlier
\* instance that holds a subscription (the sequence A, B, A).
C25_Witness ==
    /\ last.op = "getInstance"
    /\ last.err = NoErr
    /\ \E r \in DOMAIN regs :
          /\ r < last.ret[1]
          /\ r # last.ret[2]
          /\ regs[r].name = last.id
          /\ SubsOf(regs, r) # {}

----------------------------------------------------------------------------
(* Subscribing, terminating and failing inside a pass. *)

\* The positions in the log of the invocations of the handler that
\* subscribes itself again: each of them appended one subscription record.
SelfSubscriptions == {e \in DOMAIN last.log : last.log[e].sub.h = "hSub"}

\* The j-th of them, in the order of the log.
NthSelfSubscription(j) ==
    CHOOSE e \in SelfSubscriptions :
        Cardinality({f \in SelfSubscriptions : f <= e}) = j

\* The identity of the record the j-th of them appended.
AppendedId(j) == nextSub - Cardinality(SelfSubscriptions) + j

\* The publish call that would come next, for the same name on the same
\* instance.
NextPublish == publish(Start, last.reg, last.ev, 0)

\* C26 (checked under SpecDispatch): after a publish call that returns, a
\* subscription a handler appended by on() for the name being dispatched has
\* not been invoked by the publish call that was running when it was
\* appended, is in the list, after every record that was there before it,
\* and is invoked by the next publish of that name.
C26_SubscribeDuringPass ==
    (last.op = "publish" /\ last.passes[1].returned) =>
        \A j \in 1..Cardinality(SelfSubscriptions) :
            LET id == AppendedId(j)
                during == last.log[NthSelfSubscription(j)].pass
            IN  /\ Invocations(during, id) = {}
                /\ \E k \in DOMAIN PostList :
                      /\ PostList[k].id = id
                      /\ \A m \in DOMAIN PostList : PostList[m].id < id => m < k
                /\ NextPublish.err = NoErr =>
                      \E e \in DOMAIN NextPublish.log :
                          /\ NextPublish.log[e].sub.id = id
                          /\ NextPublish.log[e].pass = 1

\* No subscription of the list republishes.
NoRepublish(list) == \A k \in DOMAIN list : list[k].h # "hPub"

\* C27 (checked under SpecDispatch): a publish call for a list none of whose
\* handlers publishes is the only publish call made, and invokes at most as
\* many handlers as the list held when the call began, also when a handler
\* subscribes during the call.
C27_BoundedPass ==
    (last.op = "publish" /\ NoRepublish(PreList)) =>
        /\ Len(last.passes) = 1
        /\ Len(last.log) <= Len(PreList)
        /\ \A e \in DOMAIN last.log : last.log[e].sub.id \in Ids(PreList)

\* A publish call invoked a handler that subscribed during the call, and
\* every handler of the list it found, and left a longer list.
C27_Witness ==
    /\ last.op = "publish"
    /\ NoRepublish(PreList)
    /\ last.passes[1].returned
    /\ SelfSubscriptions # {}
    /\ Len(PreList) >= 2
    /\ Len(last.log) = Len(PreList)
    /\ Len(PostList) > Len(PreList)

\* The records of a list that another list also holds, in their order.
Among(list, others) ==
    LET Held(sub) == sub.id \in Ids(others) IN SelectSeq(list, Held)

PrunedByNested(sub) ==
    \E i \in DOMAIN last.passes :
        /\ i > 1
        /\ last.passes[i].returned
        /\ last.passes[i].reg = last.reg
        /\ last.passes[i].ev.name = last.ev.name
        /\ sub.id \in Ids(last.passes[i].marked)

C29_StaleBeforePredicate ==
    last.op = "publish" =>
        /\ \A e \in DOMAIN last.evals : Live(last.evals[e].sub)
        /\ last.passes[1].returned =>
              \A k \in DOMAIN PreList :
                  ~Live(PreList[k]) => PreList[k].id \notin Ids(PostList)
        /\ \A i \in DOMAIN last.passes : \A id \in 1..nextSub :
              Cardinality({e \in DOMAIN last.evals :
                              /\ last.evals[e].pass = i
                              /\ last.evals[e].sub.id = id}) <= 1

\* A publish call returned after it found a stale subscription whose
\* predicate is true of the envelope.
C29_Witness ==
    /\ last.op = "publish"
    /\ last.passes[1].returned
    /\ \E k \in DOMAIN PreList :
          /\ ~Live(PreList[k])
          /\ PreList[k].pred = "isOne"
          /\ last.ev.value = 1
          /\ PreList[k].id \notin Ids(PostList)

----------------------------------------------------------------------------
(* What publish leaves alone (checked under SpecFrame). *)

\* C30: a publish of name N on instance R, with handlers that do not call
\* the library, leaves the context, the feature map and the event-name Map
\* as they were, constructs no instance, leaves every other instance as it
\* was, and on R leaves the name, the set of names that have a list (no list
\* is created) and the list of every name other than N as they were.
C30_PublishFrame ==
    [][last'.op = "publish" =>
          LET R == last'.reg
              N == last'.ev.name
          IN  /\ ctx' = ctx
              /\ featureMap' = featureMap
              /\ eventNames' = eventNames
              /\ Len(regs') = Len(regs)
              /\ \A r \in DOMAIN regs : r # R => regs'[r] = regs[r]
              /\ regs'[R].name = regs[R].name
              /\ DOMAIN regs'[R].handlers = DOMAIN regs[R].handlers
              /\ \A n \in DOMAIN regs[R].handlers :
                    n # N => regs'[R].handlers[n] = regs[R].handlers[n]]_vars

\* A publish removed a stale subscription from the list of its name while
\* the same instance holds a stale subscription under another name, another
\* instance holds one under the same name, and the feature map and the
\* event-name Map are not empty.
C30_Witness ==
    /\ last.op = "publish"
    /\ last.passes[1].returned
    /\ last.passes[1].marked # <<>>
    /\ Len(PostList) < Len(PreList)
    /\ \E n \in DOMAIN regs[last.reg].handlers :
          /\ n # last.ev.name
          /\ \E k \in DOMAIN regs[last.reg].handlers[n] :
                ~Live(regs[last.reg].handlers[n][k])
    /\ \E r \in DOMAIN regs :
          /\ r # last.reg
          /\ \E k \in DOMAIN ListOf(regs, r, last.ev.name) :
                ~Live(ListOf(regs, r, last.ev.name)[k])
    /\ featureMap # <<>>
    /\ eventNames # <<>>

----------------------------------------------------------------------------
(* Subscribing (checked under SpecDispatch). *)

\* The number of records of a list that hold handler h.
Times(list, h) == Cardinality({k \in DOMAIN list : list[k].h = h})

\* Every record of handler h in the list is live and has no predicate.
Plain(list, h) ==
    \A k \in DOMAIN list :
        list[k].h = h => (Live(list[k]) /\ list[k].pred = "absent")

\* C31, the subscription: on() for name N on instance R leaves R's list for
\* N as it was with one record more, at the end, that holds the handler
\* given and that no list held; it creates no other list and changes no
\* other list of any instance.
C31_OnAppendsOne ==
    [][last'.op = "on" =>
          LET R == last'.reg
              N == last'.ev.name
              old == ListOf(regs, R, N)
              new == ListOf(regs', R, N)
          IN  /\ Len(new) = Len(old) + 1
              /\ SubSeq(new, 1, Len(old)) = old
              /\ new[Len(new)].h = last'.h
              /\ \A r \in DOMAIN regs : new[Len(new)].id \notin SubsOf(regs, r)
              /\ Len(regs') = Len(regs)
              /\ DOMAIN regs'[R].handlers = DOMAIN regs[R].handlers \cup {N}
              /\ \A r \in DOMAIN regs : \A n \in DOMAIN regs[r].handlers :
                    (r # R \/ n # N) => ListOf(regs', r, n) = regs[r].handlers[n]
              /\ \A r \in DOMAIN regs :
                    r # R => DOMAIN regs'[r].handlers = DOMAIN regs[r].handlers]_vars

\* C31, the dispatch: a publish call that returns has invoked a handler as
\* many times as the list it found holds records of it, when these are live
\* and have no predicate.
C31_InvokedEachTime ==
    last.op = "publish" =>
        \A i \in DOMAIN last.passes : \A h \in Handlers :
            LET P == last.passes[i] IN
            (P.returned /\ Plain(P.list, h))
            => Cardinality(InvocationsOf(i, h)) = Times(P.list, h)

\* C31: both.
C31_NoDeduplication == C31_OnAppendsOne /\ []C31_InvokedEachTime

----------------------------------------------------------------------------
(* The feature map over time (checked under SpecScope). *)

\* C32: registerFeature puts the callback at the end of the array of its
\* context, creating the array if there is none, touches no other array and
\* runs nothing; no step removes a context or a callback from the feature
\* map or moves a callback; and a callback is only ever run with an instance
\* constructed in the same step, never with one that existed before.
C32_FeatureMapAppendOnly ==
    [][/\ \A c \in DOMAIN featureMap :
             /\ c \in DOMAIN featureMap'
             /\ Len(featureMap'[c]) >= Len(featureMap[c])
             /\ SubSeq(featureMap'[c], 1, Len(featureMap[c])) = featureMap[c]
       /\ last'.op = "registerFeature" =>
             /\ featureMap'[last'.id] = Append(Registered(last'.id), last'.h)
             /\ DOMAIN featureMap' = DOMAIN featureMap \cup {last'.id}
             /\ \A c \in DOMAIN featureMap :
                   c # last'.id => featureMap'[c] = featureMap[c]
             /\ last'.cbs = <<>>
             /\ regs' = regs
       /\ \A k \in DOMAIN last'.cbs :
             /\ last'.cbs[k].reg \notin DOMAIN regs
             /\ last'.cbs[k].reg \in DOMAIN regs']_vars

\* A getInstance returned the instance of its name that the context
\* already held and ran nothing, although the subscribing callback is
\* registered under that name: it was registered after the instance was
\* constructed, and the instance holds no subscription.
C32_Witness ==
    /\ last.op = "getInstance"
    /\ last.err = NoErr
    /\ Truthy(last.id)
    /\ regs[last.ret[1]].name = last.id
    /\ \E k \in DOMAIN Registered(last.id) : Registered(last.id)[k] = "cbSub"
    /\ last.cbs = <<>>
    /\ SubsOf(regs, last.ret[1]) = {}

----------------------------------------------------------------------------
(* An init callback that throws (checked under SpecScope). *)

\* The getInstance of this step constructs an instance for a name under
\* which the throwing callback is registered.
ConstructsWithThrower ==
    /\ last'.op = "getInstance"
    /\ Truthy(last'.id)
    /\ MustCreate(regs, ctx[last'.pos].beanLink, last'.id)
    /\ \E k \in DOMAIN Registered(last'.id) : Registered(last'.id)[k] = "cbThrow"

\* The exception leaves the getInstance of this step, and the callbacks
\* that ran are those registered up to the first that throws, in order.
ThrowEndsCallbacks ==
    /\ last'.err = "callback"
    /\ Len(last'.cbs) >= 1
    /\ Len(last'.cbs) <= Len(Registered(last'.id))
    /\ \A k \in DOMAIN last'.cbs :
          /\ last'.cbs[k].cb = Registered(last'.id)[k]
          /\ last'.cbs[k].cb = "cbThrow" <=> k = Len(last'.cbs)

\* C33 as stated: when an init callback throws while getInstance constructs
\* an instance, the exception leaves getInstance, the callbacks registered
\* after it are not run, and the context is as it was before the call.
C33_ThrowLeavesContext ==
    [][ConstructsWithThrower => (ThrowEndsCallbacks /\ ctx' = ctx)]_vars

\* C33: when an init callback throws while getInstance constructs an
\* instance, the exception leaves getInstance, the callbacks registered
\* after it are not run, and getInstance writes nothing to the context: the
\* new instance is in no context, the contexts of the other components are
\* as they were, and the context of the component is as it was unless an
\* init callback that ran before the throw resolved an instance itself.
C33_ThrowWritesNothing ==
    [][ConstructsWithThrower =>
          /\ ThrowEndsCallbacks
          /\ Len(ctx') = Len(ctx)
          /\ \A q \in DOMAIN ctx :
                /\ ctx'[q].beanLink # Len(regs) + 1
                /\ ctx'[q].parentBeanLink # Len(regs) + 1
                /\ q # last'.pos => ctx'[q] = ctx[q]
          /\ (\A k \in DOMAIN last'.cbs : last'.cbs[k].cb # "cbResolve")
                => ctx' = ctx]_vars

\* The exception of the second callback registered under a name left a
\* getInstance for that name in a component whose context holds an instance,
\* and the context still holds it.
C33_Witness ==
    /\ last.op = "getInstance"
    /\ last.err = "callback"
    /\ Len(last.cbs) = 2
    /\ last.cbs[1].cb = "cbSub"
    /\ ctx[last.pos].beanLink # Undef
    /\ ctx[last.pos].beanLink = last.cbs[1].seen
    /\ regs[ctx[last.pos].beanLink].name # last.id

----------------------------------------------------------------------------
(* The FeatureManager (checked under SpecFeatures). *)

\* C34: FeatureManager.registerFeature(feature) calls setup() once and
\* leaves the feature recorded under its name, in place of the feature that
\* was recorded under it if there was one, and the other names as they
\* were; the callback its setup() registers is added at the end of the array
\* of its context also when the name was recorded already; and a getInstance
\* that constructs an instance and returns has run, with that instance, the
\* callbacks registered for its name, once per registration and in order.
C34_SetupEveryTime ==
    [][/\ last'.op = "managerRegisterFeature" =>
             \E f \in FeatureObjects :
                 /\ f.obj = last'.pos
                 /\ f.name = last'.id
                 /\ last'.setups = 1
                 /\ DOMAIN features' = DOMAIN features \cup {f.name}
                 /\ features'[f.name] = f.obj
                 /\ \A n \in DOMAIN features : n # f.name => features'[n] = features[n]
                 /\ DOMAIN featureMap' = DOMAIN featureMap \cup {f.context}
                 /\ featureMap'[f.context] = Append(Registered(f.context), f.cb)
                 /\ \A c \in DOMAIN featureMap :
                       c # f.context => featureMap'[c] = featureMap[c]
       /\ ( /\ last'.op = "getInstance"
            /\ last'.err = NoErr
            /\ last'.ret[1] \notin DOMAIN regs )
          => /\ Len(last'.cbs) = Len(Registered(last'.id))
             /\ \A k \in DOMAIN last'.cbs :
                   /\ last'.cbs[k].cb = Registered(last'.id)[k]
                   /\ last'.cbs[k].reg = last'.ret[1]]_vars

\* A getInstance constructed an instance and ran the subscribing callback
\* twice, after a feature was registered twice under one name: one feature
\* is recorded, two callbacks are registered, and the instance holds two
\* subscriptions.
C34_Witness ==
    /\ last.op = "getInstance"
    /\ last.err = NoErr
    /\ Len(last.cbs) = 2
    /\ DOMAIN features = {"Booking"}
    /\ Registered(last.id) = <<"cbSub", "cbSub">>
    /\ Cardinality(SubsOf(regs, last.ret[1])) = 2

====
